---- MODULE Spec2Model ----
(***************************************************************************)
(* Room and random-matchmaking core of the chat server                     *)
(* (src/unnamed/part_000, second server variant, lines 619-1489).          *)
(*                                                                         *)
(* Every socket.io event handler runs to completion on the single Node.js  *)
(* event loop, so each handler is one atomic action.  The state is the     *)
(* server's module-level data (rooms, randomWaitingQueue, randomPairs),    *)
(* the per-socket session object socket.data, and the two socket.io        *)
(* structures the code reads directly: io.sockets.sockets (live sockets)   *)
(* and io.sockets.adapter.rooms (room name -> set of socket ids).          *)
(***************************************************************************)
EXTENDS Integers, Sequences, FiniteSets, TLC

(* ------------------------------ bounds -------------------------------- *)

\* How many connections are ever opened (socket ids are never reused).
NumSockets == 3

\* How many of them there are in IdRoomSpec and SignalSpec.
NumRoomSockets == 2

\* Largest in-range maxSeats a client sends.
MaxSeatsInput == 2

\* Latest millisecond at which a room is created in DirectorySpec.
MaxClock == 1

\* Most events one page has sent that the server has not served yet when the
\* user clicks again, and most events on their way to one page when the
\* server serves another event.
MaxInFlight == 1

(* ------------------------- program constants -------------------------- *)

MinSeats == 1
MaxSeats == 100
MinPasswordLen == 4
MaxPasswordLen == 50
MaxMessageLen == 500

(* ------------------------------ values -------------------------------- *)

\* JavaScript null / undefined.
NULL == "null"

SocketNames == <<"s1", "s2", "s3", "s4", "s5">>

\* Connection ids assigned by the transport.
Sockets == {SocketNames[i] : i \in 1..NumSockets}

\* Room ids a client may type.  socket.io keeps one adapter room per socket,
\* named by the socket id (the code relies on it: io.to(targetSocketId)), and
\* a roomId is an arbitrary client string, so a socket id is a possible roomId.
PlainRoomIds == {"lobby", "secret"}
RoomNames == PlainRoomIds \cup Sockets

Usernames == {"alice", "bob"}

\* Opaque signaling payloads (offer / answer / candidate).
Payloads == {"sdp"}

\* Aliases a client sends with randomJoin ("" = none given).  They are
\* already trimmed and shorter than 30 characters.
AliasInputs == {"", "alice"}

(* ------------------------------- state -------------------------------- *)

VARIABLES
  conn,                \* socket id -> "new" | "open" | "closed"; the open ones are io.sockets.sockets
  data,                \* socket id -> socket.data
  rooms,               \* the rooms object: a function whose domain is the ids of the rooms that exist
  adapterRooms,        \* io.sockets.adapter.rooms: room name -> set of socket ids
  randomWaitingQueue,  \* array of socket ids
  randomPairs,         \* Map socketId -> partnerSocketId, NULL when absent
  outbox,              \* what the last handler emitted, in order (acks included)
  lastEvent,           \* name and socket of the inbound event the last handler served
  client,              \* socket id -> the random-chat page behind it: started, partnerSocketId
  toServer,            \* socket id -> events the page has emitted that the server has not served yet
  toClient             \* socket id -> events and acknowledgments on their way to the page

vars == <<conn, data, rooms, adapterRooms, randomWaitingQueue, randomPairs,
          outbox, lastEvent, client, toServer, toClient>>

\* One emit call: event name, the set of sockets that receive it, payload.
Emit(ev, to, val) == [ev |-> ev, to |-> to, val |-> val]

\* callback({success, message}) to the requesting socket.
Ack(s, success, message) ==
  Emit("ack", {s}, [success |-> success, message |-> message])

\* io.to(name): the sockets of the adapter room of that name.
IoTo(ad, name) == ad[name]

Event(name, s) == [name |-> name, socket |-> s]

(* ------------------------- random matchmaking ------------------------- *)

RECURSIVE RemoveFirst(_, _)
RemoveFirst(q, x) ==
  IF q = <<>> THEN <<>>
  ELSE IF Head(q) = x THEN Tail(q)
  ELSE <<Head(q)>> \o RemoveFirst(Tail(q), x)

\* indexOf + splice: drops the first occurrence of socketId.
\* A dequeue that takes the head of the queue, whoever it is.
dequeueRandomSocket_Shift(q, socketId) == IF q = <<>> THEN q ELSE Tail(q)

dequeueRandomSocket(q, socketId) == RemoveFirst(q, socketId)

getRandomPartner(prs, socketId) == prs[socketId]

\* A clearRandomPair that forgets randomPairs.delete(partnerSocketId).
clearRandomPair_OneSided(prs, socketId) ==
  [pairs |-> [prs EXCEPT ![socketId] = NULL], partner |-> prs[socketId]]

\* Returns the pairing table after the call and the former partner.
clearRandomPair(prs, socketId) ==
  LET partnerSocketId == getRandomPartner(prs, socketId) IN
  IF partnerSocketId = NULL
  THEN [pairs |-> prs, partner |-> NULL]
  ELSE [pairs |-> [x \in Sockets |->
                     IF x \in {socketId, partnerSocketId} THEN NULL ELSE prs[x]],
        partner |-> partnerSocketId]

\* An isRandomPair that only asks whether the target is in the pairing table.
isRandomPair_AnyPaired(prs, socketId, targetSocketId) == prs[targetSocketId] # NULL

isRandomPair(prs, socketId, targetSocketId) == prs[socketId] = targetSocketId

\* A randomJoin without the early return for a paired socket.
alreadyPaired_Unchecked(prs, socketId) == FALSE

\* if (getRandomPartner(socket.id)) in the randomJoin handler.
alreadyPaired(prs, socketId) == getRandomPartner(prs, socketId) # NULL

RECURSIVE ScanQueue(_, _, _, _)

\* A scan that reads the candidate without shifting it off the queue.
ScanQueue_Peek(q, prs, cn, s) ==
  IF q = <<>> THEN [found |-> FALSE, candidate |-> NULL, queue |-> <<>>]
  ELSE LET candidateId == Head(q) IN
       IF candidateId = s \/ cn[candidateId] # "open"
          \/ getRandomPartner(prs, candidateId) # NULL
       THEN ScanQueue(Tail(q), prs, cn, s)
       ELSE [found |-> TRUE, candidate |-> candidateId, queue |-> q]

\* A scan that shifts every entry off the queue and settles on none.
ScanQueue_Drains(q, prs, cn, s) ==
  [found |-> FALSE, candidate |-> NULL, queue |-> <<>>]

\* The while loop of tryMatchRandomUser: shift entries until one is usable.
ScanQueue(q, prs, cn, s) ==
  IF q = <<>> THEN [found |-> FALSE, candidate |-> NULL, queue |-> <<>>]
  ELSE LET candidateId == Head(q) IN
       IF candidateId = s THEN ScanQueue(Tail(q), prs, cn, s)
       ELSE IF cn[candidateId] # "open" \/ getRandomPartner(prs, candidateId) # NULL
            THEN ScanQueue(Tail(q), prs, cn, s)
       ELSE [found |-> TRUE, candidate |-> candidateId, queue |-> Tail(q)]

AliasOrStranger(dt, s) ==
  IF dt[s].randomName = NULL THEN "Stranger" ELSE dt[s].randomName

\* A tryMatchRandomUser that tells both partners to initiate.
tryMatchRandomUser_BothInitiate(q, prs, cn, dt, s) ==
  LET scan == ScanQueue(dequeueRandomSocket(q, s), prs, cn, s) IN
  IF scan.found
  THEN [matched |-> TRUE,
        queue |-> scan.queue,
        pairs |-> [prs EXCEPT ![s] = scan.candidate, ![scan.candidate] = s],
        out |-> << Emit("randomMatched", {s},
                        [partnerSocketId |-> scan.candidate,
                         partnerName |-> AliasOrStranger(dt, scan.candidate),
                         initiator |-> TRUE]),
                   Emit("randomMatched", {scan.candidate},
                        [partnerSocketId |-> s,
                         partnerName |-> AliasOrStranger(dt, s),
                         initiator |-> TRUE]) >>]
  ELSE [matched |-> FALSE,
        queue |-> Append(scan.queue, s),
        pairs |-> prs,
        out |-> << Emit("randomWaiting", {s}, NULL) >>]

\* A tryMatchRandomUser that records the pair for the requester only.
tryMatchRandomUser_HalfPair(q, prs, cn, dt, s) ==
  LET scan == ScanQueue(dequeueRandomSocket(q, s), prs, cn, s) IN
  IF scan.found
  THEN [matched |-> TRUE,
        queue |-> scan.queue,
        pairs |-> [prs EXCEPT ![s] = scan.candidate],
        out |-> << Emit("randomMatched", {s},
                        [partnerSocketId |-> scan.candidate,
                         partnerName |-> AliasOrStranger(dt, scan.candidate),
                         initiator |-> TRUE]),
                   Emit("randomMatched", {scan.candidate},
                        [partnerSocketId |-> s,
                         partnerName |-> AliasOrStranger(dt, s),
                         initiator |-> FALSE]) >>]
  ELSE [matched |-> FALSE,
        queue |-> Append(scan.queue, s),
        pairs |-> prs,
        out |-> << Emit("randomWaiting", {s}, NULL) >>]

\* A tryMatchRandomUser that looks for a usable candidate without removing
\* the requester or the entries it skips from the queue.
tryMatchRandomUser_KeepsQueue(q, prs, cn, dt, s) ==
  LET usable == { i \in 1..Len(q) :
                    q[i] # s /\ cn[q[i]] = "open" /\ getRandomPartner(prs, q[i]) = NULL }
  IN IF usable # {}
     THEN LET k == CHOOSE i \in usable : \A j \in usable : i <= j IN
          [matched |-> TRUE,
           queue |-> SubSeq(q, 1, k - 1) \o SubSeq(q, k + 1, Len(q)),
           pairs |-> [prs EXCEPT ![s] = q[k], ![q[k]] = s],
           out |-> << Emit("randomMatched", {s},
                           [partnerSocketId |-> q[k],
                            partnerName |-> AliasOrStranger(dt, q[k]),
                            initiator |-> TRUE]),
                      Emit("randomMatched", {q[k]},
                           [partnerSocketId |-> s,
                            partnerName |-> AliasOrStranger(dt, s),
                            initiator |-> FALSE]) >>]
     ELSE [matched |-> FALSE,
           queue |-> Append(q, s),
           pairs |-> prs,
           out |-> << Emit("randomWaiting", {s}, NULL) >>]

tryMatchRandomUser(q, prs, cn, dt, s) ==
  LET scan == ScanQueue(dequeueRandomSocket(q, s), prs, cn, s) IN
  IF scan.found
  THEN [matched |-> TRUE,
        queue |-> scan.queue,
        pairs |-> [prs EXCEPT ![s] = scan.candidate, ![scan.candidate] = s],
        out |-> << Emit("randomMatched", {s},
                        [partnerSocketId |-> scan.candidate,
                         partnerName |-> AliasOrStranger(dt, scan.candidate),
                         initiator |-> TRUE]),
                   Emit("randomMatched", {scan.candidate},
                        [partnerSocketId |-> s,
                         partnerName |-> AliasOrStranger(dt, s),
                         initiator |-> FALSE]) >>]
  ELSE [matched |-> FALSE,
        queue |-> Append(scan.queue, s),
        pairs |-> prs,
        out |-> << Emit("randomWaiting", {s}, NULL) >>]

\* An endRandomSession that tells the partner but keeps the pair.
endRandomSession_KeepsPair(q, prs, ad, s, notifyPartner) ==
  [queue |-> dequeueRandomSocket(q, s),
   pairs |-> prs,
   out |-> IF getRandomPartner(prs, s) # NULL /\ notifyPartner
           THEN << Emit("randomDisconnected", IoTo(ad, getRandomPartner(prs, s)),
                        [message |-> "Stranger disconnected"]) >>
           ELSE <<>>]

\* An endRandomSession that never tells the partner.
endRandomSession_Silent(q, prs, ad, s, notifyPartner) ==
  [queue |-> dequeueRandomSocket(q, s),
   pairs |-> clearRandomPair(prs, s).pairs,
   out |-> <<>>]

endRandomSession(q, prs, ad, s, notifyPartner) ==
  LET cleared == clearRandomPair(prs, s) IN
  [queue |-> dequeueRandomSocket(q, s),
   pairs |-> cleared.pairs,
   out |-> IF cleared.partner # NULL /\ notifyPartner
           THEN << Emit("randomDisconnected", IoTo(ad, cleared.partner),
                        [message |-> "Stranger disconnected"]) >>
           ELSE <<>>]

(* ------------------------------- rooms -------------------------------- *)

\* Passwords and chat messages are sequences of characters.
Blank == " "
Pass1 == <<"p", "a", "s", "s", "1">>
PasswordInputs ==
  { <<>>, Pass1, <<Blank>> \o Pass1 \o <<Blank>>,
    <<"a", "b", "c", Blank, Blank>>, [i \in 1..(MaxPasswordLen + 1) |-> "x"] }

RECURSIVE TrimLeft(_)
TrimLeft(str) ==
  IF str # <<>> /\ Head(str) = Blank THEN TrimLeft(Tail(str)) ELSE str

RECURSIVE TrimRight(_)
TrimRight(str) ==
  IF str # <<>> /\ str[Len(str)] = Blank
  THEN TrimRight(SubSeq(str, 1, Len(str) - 1)) ELSE str

\* String.prototype.trim
Trim(str) == TrimRight(TrimLeft(str))

\* rooms[roomId] is defined.
HasRoom(rms, roomId) == roomId \in DOMAIN rms

getUserCountInRoom(rms, ad, roomId) ==
  IF ~HasRoom(rms, roomId) THEN 0 ELSE Cardinality(ad[roomId])

\* {socketId, username} of every socket of the adapter room that is live and
\* has a username (the iteration order of the Set is not modelled).
getUsersDetailedInRoom(rms, ad, cn, dt, roomId) ==
  IF ~HasRoom(rms, roomId) THEN {}
  ELSE { [socketId |-> x, username |-> dt[x].username] :
           x \in { y \in ad[roomId] : cn[y] = "open" /\ dt[y].username # NULL } }

\* The usernames of getUsersInRoom, as read by usersInRoom.includes(username).
getUsersInRoom(rms, ad, cn, dt, roomId) ==
  { u.username : u \in getUsersDetailedInRoom(rms, ad, cn, dt, roomId) }

isSocketInRoom(ad, roomId, socketId) == socketId \in ad[roomId]

RECURSIVE KeysOf(_)
KeysOf(S) ==
  IF S = {} THEN <<>>
  ELSE LET k == CHOOSE x \in S : TRUE IN <<k>> \o KeysOf(S \ {k})

\* Object.entries(rooms), as the sequence of its keys.  The order in which the
\* keys were inserted is not kept by the model, which lists them in a fixed
\* order; it shows only among rooms created in the same millisecond.
ObjectEntries(rms) == KeysOf(DOMAIN rms)

\* A sort that leaves the list as it is.
SortNewestFirst_Unsorted(list) == list

\* .sort((a, b) => new Date(b.createdAt) - new Date(a.createdAt)): a stable
\* sort, latest createdAt first.
RECURSIVE SortNewestFirst(_)
SortNewestFirst(list) ==
  IF list = <<>> THEN <<>>
  ELSE LET sorted == SortNewestFirst(SubSeq(list, 1, Len(list) - 1))
           e == list[Len(list)]
           k == Cardinality({ i \in 1..Len(sorted) : sorted[i].createdAt >= e.createdAt })
       IN SubSeq(sorted, 1, k) \o <<e>> \o SubSeq(sorted, k + 1, Len(sorted))

getPublicRooms(rms, ad) ==
  LET entries == ObjectEntries(rms)
      public == SelectSeq(entries, LAMBDA roomId : rms[roomId].isPublic)
  IN SortNewestFirst([i \in 1..Len(public) |->
                        [roomId |-> public[i],
                         maxSeats |-> rms[public[i]].maxSeats,
                         currentUsers |-> getUserCountInRoom(rms, ad, public[i]),
                         createdAt |-> rms[public[i]].createdAt]])

\* An emitPublicRoomsUpdate() that sends the directory to nobody.
emitPublicRoomsUpdate_ToNobody(rms, ad, cn) ==
  Emit("publicRooms", {}, getPublicRooms(rms, ad))

\* emitPublicRoomsUpdate(): io.emit to every live socket.
emitPublicRoomsUpdate(rms, ad, cn) ==
  Emit("publicRooms", { x \in Sockets : cn[x] = "open" }, getPublicRooms(rms, ad))

\* emitPublicRoomsUpdate(socket)
emitPublicRoomsTo(rms, ad, s) ==
  Emit("publicRooms", {s}, getPublicRooms(rms, ad))

(* ------------------------------ inputs -------------------------------- *)

\* "" stands for a missing (falsy) field.
Missing == ""

\* A client can only name a socket id it has seen, so an id is usable as a
\* roomId once that connection exists.
KnownRoomIds(ids, cn) == { r \in ids : r \in Sockets => cn[r] # "new" }

SeatInputs == (0..MaxSeatsInput) \cup {MaxSeats + 1}

MessageInputs ==
  { <<>>, <<Blank>>, <<"h", "i">>, <<Blank, "h", "i", Blank>>,
    [i \in 1..(MaxMessageLen + 1) |-> "x"] }

(* ---------------------------- state machine --------------------------- *)

NoData == [roomId |-> NULL, username |-> NULL, randomName |-> NULL]

\* The server after `server.listen`.
ServerInit ==
  /\ conn = [s \in Sockets |-> "new"]
  /\ data = [s \in Sockets |-> NoData]
  /\ rooms = <<>>
  /\ adapterRooms = [r \in RoomNames |-> {}]
  /\ randomWaitingQueue = <<>>
  /\ randomPairs = [s \in Sockets |-> NULL]
  /\ outbox = <<>>
  /\ lastEvent = Event("init", NULL)

\* The globals of the random-chat page script as it is loaded.  `build` names
\* which of the two versions of the script the page runs; NULL stands for a
\* connection whose other end is not a random-chat page.
NoPage == [build |-> NULL, started |-> FALSE, partnerSocketId |-> NULL]

Page(build) == [NoPage EXCEPT !.build = build]

\* No page is modelled: events come from arbitrary clients.
Init ==
  /\ ServerInit
  /\ client = [s \in Sockets |-> NoPage]
  /\ toServer = [s \in Sockets |-> <<>>]
  /\ toClient = [s \in Sockets |-> <<>>]

\* The events the random-chat page has a listener for.
PageEvents ==
  {"randomWaiting", "randomMatched", "randomOffer", "randomAnswer",
   "randomDisconnected"}

\* What the handler of event `name` from socket s puts on the wire to the
\* page behind socket c: the emissions that reach c, in emission order, and
\* the acknowledgment when the page passed a callback, which it does for
\* randomJoin only.  Each carries the inbound event that caused it.
ToPage(c, name, s, out) ==
  LET heard(e) ==
        /\ c \in e.to
        /\ \/ e.ev \in PageEvents
           \/ e.ev = "ack" /\ name = "randomJoin"
      RECURSIVE wire(_)
      wire(o) ==
        IF o = <<>> THEN <<>>
        ELSE (IF heard(Head(o))
              THEN << [ev |-> Head(o).ev, val |-> Head(o).val,
                       cause |-> Event(name, s)] >>
              ELSE <<>>) \o wire(Tail(o))
  IN wire(out)

\* The handler's emissions and which event it served.  When pages are
\* modelled, the event served is the oldest one the page of s has sent, and
\* the emissions travel to the pages in order.
Served(name, s, out) ==
  /\ outbox' = out
  /\ lastEvent' = Event(name, s)
  /\ client' = client
  /\ IF \A c \in Sockets : client[c].build = NULL
     THEN UNCHANGED <<toServer, toClient>>
     ELSE /\ toServer' = [toServer EXCEPT
                            ![s] = IF @ = <<>> THEN @ ELSE Tail(@)]
          /\ toClient' = [c \in Sockets |->
                            IF client[c].build = NULL THEN toClient[c]
                            ELSE toClient[c] \o ToPage(c, name, s, out)]

\* A refusal that also drops the requester's room session.
Reject_DropsSession(name, s, message) ==
  /\ Served(name, s, << Ack(s, FALSE, message) >>)
  /\ data' = [data EXCEPT ![s].roomId = NULL, ![s].username = NULL]
  /\ UNCHANGED <<conn, rooms, adapterRooms, randomWaitingQueue, randomPairs>>

\* return callback({ success: false, message })
Reject(name, s, message) ==
  /\ Served(name, s, << Ack(s, FALSE, message) >>)
  /\ UNCHANGED <<conn, data, rooms, adapterRooms, randomWaitingQueue, randomPairs>>

\* io.on('connection'): socket.io registers the socket and joins it to the
\* adapter room named by its own id; the handler sends the directory.
Connect(s) ==
  /\ conn[s] = "new"
  /\ conn' = [conn EXCEPT ![s] = "open"]
  /\ adapterRooms' = [adapterRooms EXCEPT ![s] = @ \cup {s}]
  /\ Served("connection", s, << emitPublicRoomsTo(rooms, adapterRooms', s) >>)
  /\ UNCHANGED <<data, rooms, randomWaitingQueue, randomPairs>>

\* A validation chain of createRoom that does not look for an existing room.
createRoomError_ExistenceUnchecked(rms, roomId, maxSeats, username, isPublic, password) ==
  IF roomId = Missing \/ maxSeats = 0 \/ username = Missing
  THEN "Missing required fields"
  ELSE IF maxSeats < MinSeats \/ maxSeats > MaxSeats
  THEN "Maximum seats must be between 1 and 100"
  ELSE IF ~isPublic /\ (Trim(password) = <<>>
                         \/ Len(Trim(password)) < MinPasswordLen
                         \/ Len(Trim(password)) > MaxPasswordLen)
  THEN "Password must be 4 to 50 characters for private rooms"
  ELSE NULL

\* The validation chain of createRoom: the message of the first failing
\* check, NULL when the request is accepted.
createRoomError(rms, roomId, maxSeats, username, isPublic, password) ==
  IF roomId = Missing \/ maxSeats = 0 \/ username = Missing
  THEN "Missing required fields"
  ELSE IF maxSeats < MinSeats \/ maxSeats > MaxSeats
  THEN "Maximum seats must be between 1 and 100"
  ELSE IF ~isPublic /\ (Trim(password) = <<>>
                         \/ Len(Trim(password)) < MinPasswordLen
                         \/ Len(Trim(password)) > MaxPasswordLen)
  THEN "Password must be 4 to 50 characters for private rooms"
  ELSE IF HasRoom(rms, roomId)
  THEN "Room ID already exists"
  ELSE NULL

\* createdAt is what new Date() reads while the handler runs.
CreateRoom(s, roomId, maxSeats, username, isPublic, password, createdAt) ==
  /\ conn[s] = "open"
  /\ LET error == createRoomError(rooms, roomId, maxSeats, username, isPublic, password) IN
     IF error # NULL
     THEN Reject("createRoom", s, error)
     ELSE
       /\ rooms' = rooms @@ (roomId :>
                      [maxSeats |-> maxSeats,
                       createdAt |-> createdAt,
                       users |-> <<username>>,
                       isPublic |-> isPublic,
                       password |-> IF isPublic THEN NULL ELSE Trim(password)])
       /\ data' = [data EXCEPT ![s].roomId = roomId, ![s].username = username]
       /\ adapterRooms' = [adapterRooms EXCEPT ![roomId] = @ \cup {s}]
       /\ Served("createRoom", s,
            << Ack(s, TRUE, "Room created successfully"),
               Emit("userJoined", IoTo(adapterRooms', roomId),
                    [username |-> username, socketId |-> s,
                     usersDetailed |->
                       getUsersDetailedInRoom(rooms', adapterRooms', conn, data', roomId)]),
               Emit("roomState", {s},
                    [roomId |-> roomId, maxSeats |-> maxSeats, currentUsers |-> 1,
                     usersDetailed |->
                       getUsersDetailedInRoom(rooms', adapterRooms', conn, data', roomId)]),
               emitPublicRoomsUpdate(rooms', adapterRooms', conn) >>)
       /\ UNCHANGED <<conn, randomWaitingQueue, randomPairs>>

\* A validation chain of joinRoom without the password check.
joinRoomError_PasswordUnchecked(rms, ad, cn, dt, roomId, username, password) ==
  IF roomId = Missing \/ username = Missing
  THEN "Missing required fields"
  ELSE IF ~HasRoom(rms, roomId)
  THEN "Room does not exist"
  ELSE IF getUserCountInRoom(rms, ad, roomId) >= rms[roomId].maxSeats
  THEN "Room is full"
  ELSE IF username \in getUsersInRoom(rms, ad, cn, dt, roomId)
  THEN "Username already taken in this room"
  ELSE NULL

\* A validation chain of joinRoom that looks at the username before the
\* seats.
joinRoomError_ConflictBeforeFull(rms, ad, cn, dt, roomId, username, password) ==
  IF roomId = Missing \/ username = Missing
  THEN "Missing required fields"
  ELSE IF ~HasRoom(rms, roomId)
  THEN "Room does not exist"
  ELSE IF ~rms[roomId].isPublic /\ Trim(password) # rms[roomId].password
  THEN "Incorrect room password"
  ELSE IF username \in getUsersInRoom(rms, ad, cn, dt, roomId)
  THEN "Username already taken in this room"
  ELSE IF getUserCountInRoom(rms, ad, roomId) >= rms[roomId].maxSeats
  THEN "Room is full"
  ELSE NULL

\* The validation chain of joinRoom.
joinRoomError(rms, ad, cn, dt, roomId, username, password) ==
  IF roomId = Missing \/ username = Missing
  THEN "Missing required fields"
  ELSE IF ~HasRoom(rms, roomId)
  THEN "Room does not exist"
  ELSE IF ~rms[roomId].isPublic /\ Trim(password) # rms[roomId].password
  THEN "Incorrect room password"
  ELSE IF getUserCountInRoom(rms, ad, roomId) >= rms[roomId].maxSeats
  THEN "Room is full"
  ELSE IF username \in getUsersInRoom(rms, ad, cn, dt, roomId)
  THEN "Username already taken in this room"
  ELSE NULL

JoinRoom(s, roomId, username, password) ==
  /\ conn[s] = "open"
  /\ LET error == joinRoomError(rooms, adapterRooms, conn, data, roomId, username, password) IN
     IF error # NULL
     THEN Reject("joinRoom", s, error)
     ELSE
       LET room == rooms[roomId]
           currentUsers == getUserCountInRoom(rooms, adapterRooms, roomId)
       IN
       /\ data' = [data EXCEPT ![s].roomId = roomId, ![s].username = username]
       /\ adapterRooms' = [adapterRooms EXCEPT ![roomId] = @ \cup {s}]
       /\ Served("joinRoom", s,
            << Ack(s, TRUE, "Joined room successfully"),
               Emit("userJoined", IoTo(adapterRooms', roomId),
                    [username |-> username, socketId |-> s,
                     usersDetailed |->
                       getUsersDetailedInRoom(rooms, adapterRooms', conn, data', roomId)]),
               Emit("roomState", {s},
                    [roomId |-> roomId, maxSeats |-> room.maxSeats,
                     currentUsers |-> currentUsers + 1,
                     usersDetailed |->
                       getUsersDetailedInRoom(rooms, adapterRooms', conn, data', roomId)]),
               emitPublicRoomsUpdate(rooms, adapterRooms', conn) >>)
       /\ UNCHANGED <<conn, rooms, randomWaitingQueue, randomPairs>>

\* A sendMessage validation without the "Not in this room" check.
sendMessageError_RoomUnchecked(dt, s, roomId, message) ==
  IF roomId = Missing \/ message = <<>> \/ dt[s].username = NULL
  THEN "Invalid message"
  ELSE IF Len(Trim(message)) = 0
  THEN "Message cannot be empty"
  ELSE IF Len(Trim(message)) > MaxMessageLen
  THEN "Message too long (max 500 characters)"
  ELSE NULL

sendMessageError(dt, s, roomId, message) ==
  IF roomId = Missing \/ message = <<>> \/ dt[s].username = NULL
  THEN "Invalid message"
  ELSE IF Len(Trim(message)) = 0
  THEN "Message cannot be empty"
  ELSE IF Len(Trim(message)) > MaxMessageLen
  THEN "Message too long (max 500 characters)"
  ELSE IF dt[s].roomId # roomId
  THEN "Not in this room"
  ELSE NULL

SendMessage(s, roomId, message) ==
  /\ conn[s] = "open"
  /\ LET error == sendMessageError(data, s, roomId, message) IN
     IF error # NULL
     THEN Reject("sendMessage", s, error)
     ELSE
       /\ Served("sendMessage", s,
            << Emit("newMessage", IoTo(adapterRooms, roomId),
                    [username |-> data[s].username, message |-> Trim(message)]),
               Ack(s, TRUE, NULL) >>)
       /\ UNCHANGED <<conn, data, rooms, adapterRooms, randomWaitingQueue, randomPairs>>

\* A cleanup that deletes the room record whoever is still in the room.
deleteIfEmpty_Always(rms, ad, roomId) ==
  [r \in DOMAIN rms \ {roomId} |-> rms[r]]

\* delete rooms[roomId] when getUserCountInRoom(roomId) is 0.
deleteIfEmpty(rms, ad, roomId) ==
  IF getUserCountInRoom(rms, ad, roomId) = 0
  THEN [r \in DOMAIN rms \ {roomId} |-> rms[r]] ELSE rms

\* A leaveRoom handler that forgets to clear socket.data.roomId and
\* socket.data.username.
leaveRoomHandler_KeepsSession(rms, ad, cn, dt, s) ==
  LET roomId == dt[s].roomId
      username == dt[s].username
      left == [ad EXCEPT ![roomId] = @ \ {s}]
  IN
  IF roomId = NULL
  THEN [rooms |-> rms, adapter |-> ad, data |-> dt, out |-> <<>>]
  ELSE [rooms |-> deleteIfEmpty(rms, left, roomId),
        adapter |-> left,
        data |-> dt,
        out |-> << Emit("userLeft", IoTo(left, roomId),
                        [username |-> username, socketId |-> s,
                         usersDetailed |->
                           getUsersDetailedInRoom(rms, left, cn, dt, roomId)]),
                   emitPublicRoomsUpdate(deleteIfEmpty(rms, left, roomId), left, cn) >>]

\* What the leaveRoom handler of socket s does to the rooms, the adapter
\* rooms and the sessions, and what it emits.
leaveRoomHandler(rms, ad, cn, dt, s) ==
  LET roomId == dt[s].roomId
      username == dt[s].username
      left == [ad EXCEPT ![roomId] = @ \ {s}]
  IN
  IF roomId = NULL
  THEN [rooms |-> rms, adapter |-> ad, data |-> dt, out |-> <<>>]
  ELSE [rooms |-> deleteIfEmpty(rms, left, roomId),
        adapter |-> left,
        data |-> [dt EXCEPT ![s].roomId = NULL, ![s].username = NULL],
        out |-> << Emit("userLeft", IoTo(left, roomId),
                        [username |-> username, socketId |-> s,
                         usersDetailed |->
                           getUsersDetailedInRoom(rms, left, cn, dt, roomId)]),
                   emitPublicRoomsUpdate(deleteIfEmpty(rms, left, roomId), left, cn) >>]

LeaveRoom(s) ==
  /\ conn[s] = "open"
  /\ LET h == leaveRoomHandler(rooms, adapterRooms, conn, data, s) IN
     /\ rooms' = h.rooms
     /\ adapterRooms' = h.adapter
     /\ data' = h.data
     /\ Served("leaveRoom", s, h.out)
  /\ UNCHANGED <<conn, randomWaitingQueue, randomPairs>>

\* String(username || '').trim().slice(0, 30) || 'Stranger'
randomNameOf(username) == IF username = Missing THEN "Stranger" ELSE username

RandomJoin(s, username) ==
  /\ conn[s] = "open"
  /\ data' = [data EXCEPT ![s].randomName = randomNameOf(username)]
  /\ IF alreadyPaired(randomPairs, s)
     THEN /\ Served("randomJoin", s,
                << Emit("ack", {s}, [success |-> TRUE, status |-> "paired"]) >>)
          /\ UNCHANGED <<randomWaitingQueue, randomPairs>>
     ELSE LET m == tryMatchRandomUser(randomWaitingQueue, randomPairs, conn, data', s) IN
          /\ randomWaitingQueue' = m.queue
          /\ randomPairs' = m.pairs
          /\ Served("randomJoin", s,
                m.out \o << Emit("ack", {s}, [success |-> TRUE, status |-> "searching"]) >>)
  /\ UNCHANGED <<conn, rooms, adapterRooms>>

RandomNext(s) ==
  /\ conn[s] = "open"
  /\ LET e == endRandomSession(randomWaitingQueue, randomPairs, adapterRooms, s, TRUE)
         m == tryMatchRandomUser(e.queue, e.pairs, conn, data, s)
     IN
     /\ randomWaitingQueue' = m.queue
     /\ randomPairs' = m.pairs
     /\ Served("randomNext", s, e.out \o m.out \o << Ack(s, TRUE, NULL) >>)
  /\ UNCHANGED <<conn, data, rooms, adapterRooms>>

\* What the randomLeave handler of socket s does to the queue and the
\* pairing table, and what it emits.
randomLeaveHandler(q, prs, ad, s) ==
  LET e == endRandomSession(q, prs, ad, s, TRUE) IN
  [queue |-> dequeueRandomSocket(e.queue, s),
   pairs |-> e.pairs,
   out |-> e.out \o << Ack(s, TRUE, NULL) >>]

RandomLeave(s) ==
  /\ conn[s] = "open"
  /\ LET h == randomLeaveHandler(randomWaitingQueue, randomPairs, adapterRooms, s) IN
     /\ randomWaitingQueue' = h.queue
     /\ randomPairs' = h.pairs
     /\ Served("randomLeave", s, h.out)
  /\ UNCHANGED <<conn, data, rooms, adapterRooms>>

RandomSignalKinds == {"randomOffer", "randomAnswer", "randomIceCandidate"}

randomSignalError(prs, s, targetSocketId, payload) ==
  IF targetSocketId = Missing \/ payload = Missing
  THEN "Invalid payload"
  ELSE IF ~isRandomPair(prs, s, targetSocketId)
  THEN "Target is not your active random partner"
  ELSE NULL

\* randomOffer / randomAnswer / randomIceCandidate: the three handlers differ
\* only in the event name and the name of the payload field.
RandomSignal(kind, s, targetSocketId, payload) ==
  /\ conn[s] = "open"
  /\ LET error == randomSignalError(randomPairs, s, targetSocketId, payload) IN
     IF error # NULL
     THEN Reject(kind, s, error)
     ELSE
       /\ Served(kind, s,
            << Emit(kind, IoTo(adapterRooms, targetSocketId),
                    [fromSocketId |-> s, fromUsername |-> AliasOrStranger(data, s),
                     payload |-> payload]),
               Ack(s, TRUE, NULL) >>)
       /\ UNCHANGED <<conn, data, rooms, adapterRooms, randomWaitingQueue, randomPairs>>

randomSendMessageError(prs, s, message) ==
  IF getRandomPartner(prs, s) = NULL
  THEN "No active random partner"
  ELSE IF Trim(message) = <<>>
  THEN "Message cannot be empty"
  ELSE IF Len(Trim(message)) > MaxMessageLen
  THEN "Message too long (max 500 characters)"
  ELSE NULL

RandomSendMessage(s, message) ==
  /\ conn[s] = "open"
  /\ LET error == randomSendMessageError(randomPairs, s, message) IN
     IF error # NULL
     THEN Reject("randomSendMessage", s, error)
     ELSE
       LET payload == [fromSocketId |-> s, fromUsername |-> AliasOrStranger(data, s),
                       message |-> Trim(message)]
       IN
       /\ Served("randomSendMessage", s,
            << Emit("randomNewMessage", {s}, payload),
               Emit("randomNewMessage",
                    IoTo(adapterRooms, getRandomPartner(randomPairs, s)), payload),
               Ack(s, TRUE, NULL) >>)
       /\ UNCHANGED <<conn, data, rooms, adapterRooms, randomWaitingQueue, randomPairs>>

RoomSignalKinds == {"webrtcOffer", "webrtcAnswer", "webrtcIceCandidate"}

roomSignalError(ad, dt, s, roomId, targetSocketId, payload) ==
  IF roomId = Missing \/ targetSocketId = Missing \/ payload = Missing
  THEN "Invalid payload"
  ELSE IF dt[s].roomId # roomId
  THEN "Sender is not in this room"
  ELSE IF ~isSocketInRoom(ad, roomId, targetSocketId)
  THEN "Target user not in room"
  ELSE NULL

\* webrtcOffer / webrtcAnswer / webrtcIceCandidate
RoomSignal(kind, s, roomId, targetSocketId, payload) ==
  /\ conn[s] = "open"
  /\ LET error == roomSignalError(adapterRooms, data, s, roomId, targetSocketId, payload) IN
     IF error # NULL
     THEN Reject(kind, s, error)
     ELSE
       /\ Served(kind, s,
            << Emit(kind, IoTo(adapterRooms, targetSocketId),
                    [roomId |-> roomId, fromSocketId |-> s,
                     fromUsername |-> data[s].username, payload |-> payload]),
               Ack(s, TRUE, NULL) >>)
       /\ UNCHANGED <<conn, data, rooms, adapterRooms, randomWaitingQueue, randomPairs>>

\* socket.io takes the socket out of io.sockets.sockets and of every adapter
\* room before it fires 'disconnect'; then the handler runs.  The session
\* object goes away with the socket.
disconnectHandler(cn, dt, rms, ad, q, prs, s) ==
  LET roomId == dt[s].roomId
      username == dt[s].username
      left == [r \in RoomNames |-> ad[r] \ {s}]
      closed == [cn EXCEPT ![s] = "closed"]
      inRoom == roomId # NULL /\ username # NULL
      kept == IF inRoom THEN deleteIfEmpty(rms, left, roomId) ELSE rms
      e == endRandomSession(q, prs, left, s, TRUE)
  IN
  [conn |-> closed,
   data |-> [dt EXCEPT ![s] = NoData],
   rooms |-> kept,
   adapter |-> left,
   queue |-> dequeueRandomSocket(e.queue, s),
   pairs |-> e.pairs,
   out |-> (IF inRoom
            THEN << Emit("userLeft", IoTo(left, roomId),
                         [username |-> username, socketId |-> s,
                          usersDetailed |->
                            getUsersDetailedInRoom(rms, left, closed, dt, roomId)]),
                    emitPublicRoomsUpdate(kept, left, closed) >>
            ELSE <<>>) \o e.out]

Disconnect(s) ==
  /\ conn[s] = "open"
  /\ LET h == disconnectHandler(conn, data, rooms, adapterRooms,
                                randomWaitingQueue, randomPairs, s) IN
     /\ conn' = h.conn
     /\ data' = h.data
     /\ rooms' = h.rooms
     /\ adapterRooms' = h.adapter
     /\ randomWaitingQueue' = h.queue
     /\ randomPairs' = h.pairs
     /\ Served("disconnect", s, h.out)

(* --------------------------- malformed input -------------------------- *)

\* The payload argument of an event that carries no object.
Nothing == {"undefined", "null"}

\* The events whose handler takes a payload object.
PayloadEvents ==
  {"createRoom", "joinRoom", "sendMessage", "randomJoin", "randomSendMessage"}
    \cup RandomSignalKinds \cup RoomSignalKinds

\* Destructuring undefined or null raises a TypeError.  createRoom, joinRoom
\* and sendMessage destructure `data` as it comes; randomJoin has a default
\* parameter, which replaces undefined but not null; the other handlers
\* destructure `data || {}`.
throwsOnAbsent(name, nothing) ==
  \/ name \in {"createRoom", "joinRoom", "sendMessage"}
  \/ name = "randomJoin" /\ nothing = "null"

\* An exception leaves the handler; nothing in the server catches it, so the
\* process ends: every connection is dropped and the in-memory state is lost.
Throw(name, s) ==
  /\ Served(name, s, << Emit("uncaughtException", {}, "TypeError") >>)
  /\ conn' = [x \in Sockets |-> IF conn[x] = "open" THEN "closed" ELSE conn[x]]
  /\ data' = [x \in Sockets |-> NoData]
  /\ rooms' = <<>>
  /\ adapterRooms' = [r \in RoomNames |-> {}]
  /\ randomWaitingQueue' = <<>>
  /\ randomPairs' = [x \in Sockets |-> NULL]

\* An event sent with undefined or null in place of its payload object.
AbsentPayload(name, s, nothing) ==
  /\ conn[s] = "open"
  /\ IF throwsOnAbsent(name, nothing) THEN Throw(name, s)
     ELSE IF name = "randomJoin" THEN RandomJoin(s, Missing)
     ELSE IF name = "randomSendMessage" THEN RandomSendMessage(s, <<>>)
     ELSE IF name \in RandomSignalKinds THEN RandomSignal(name, s, Missing, Missing)
     ELSE RoomSignal(name, s, Missing, Missing, Missing)

\* A message event whose message field is a truthy value that is not a
\* string (a number, an object).  sendMessage calls message.trim() once
\* roomId, message and the session username are all truthy;
\* randomSendMessage reads a non-string as the empty text.
NonStringMessage(name, s, roomId) ==
  /\ conn[s] = "open"
  /\ IF name = "randomSendMessage" THEN RandomSendMessage(s, <<>>)
     ELSE IF roomId = Missing \/ data[s].username = NULL
          THEN Reject("sendMessage", s, "Invalid message")
          ELSE Throw("sendMessage", s)

(* --------------------------- specifications --------------------------- *)

\* The first n connection ids.
FirstSockets(n) == {SocketNames[i] : i \in 1..n}

\* What the clients of a specification send: which connections exist, and
\* the values their requests draw roomId, maxSeats, username, isPublic and
\* password from, and the milliseconds at which a createRoom is served.
Clients(socks, ids, seats, names, publics, passwords) ==
  [socks |-> socks, ids |-> ids, seats |-> seats, names |-> names,
   publics |-> publics, passwords |-> passwords, clock |-> {0}]

\* The readings of the clock a createRoom can get: the clock never runs
\* backwards, so none is earlier than the createdAt of an existing room.
ClockReadings(clock, rms) ==
  { t \in clock : \A r \in DOMAIN rms : rms[r].createdAt <= t }

\* Every input, valid or not.
AnyInput(socks, ids) ==
  Clients(socks, ids \cup {Missing}, SeatInputs, Usernames \cup {Missing},
          BOOLEAN, PasswordInputs)

ConnectionNext(c) ==
  \/ \E s \in c.socks : Connect(s)
  \/ \E s \in c.socks : Disconnect(s)

\* createRoom, joinRoom and leaveRoom.  With acceptedOnly the clients send
\* only requests the server accepts: a rejected request changes nothing but
\* the outbox, so the same rooms, sessions and memberships are reached.
MembershipNext(c, acceptedOnly) ==
  \/ \E s \in c.socks, roomId \in KnownRoomIds(c.ids, conn),
        maxSeats \in c.seats, username \in c.names,
        isPublic \in c.publics, password \in c.passwords,
        createdAt \in ClockReadings(c.clock, rooms) :
       /\ acceptedOnly =>
            createRoomError(rooms, roomId, maxSeats, username, isPublic, password) = NULL
       /\ CreateRoom(s, roomId, maxSeats, username, isPublic, password, createdAt)
  \/ \E s \in c.socks, roomId \in KnownRoomIds(c.ids, conn),
        username \in c.names, password \in c.passwords :
       /\ acceptedOnly =>
            joinRoomError(rooms, adapterRooms, conn, data, roomId, username, password) = NULL
       /\ JoinRoom(s, roomId, username, password)
  \/ \E s \in c.socks : LeaveRoom(s)

ChatNext(c, acceptedOnly) ==
  \E s \in c.socks, roomId \in KnownRoomIds(c.ids, conn), message \in MessageInputs :
    /\ acceptedOnly => sendMessageError(data, s, roomId, message) = NULL
    /\ SendMessage(s, roomId, message)

SignalNext(c, acceptedOnly) ==
  \E kind \in RoomSignalKinds, s \in c.socks, roomId \in KnownRoomIds(c.ids, conn),
     targetSocketId \in c.socks \cup {Missing}, payload \in Payloads \cup {Missing} :
    /\ acceptedOnly =>
         roomSignalError(adapterRooms, data, s, roomId, targetSocketId, payload) = NULL
    /\ RoomSignal(kind, s, roomId, targetSocketId, payload)

\* randomJoin, randomNext and randomLeave.
PairingNext(c, aliases) ==
  \/ \E s \in c.socks, username \in aliases : RandomJoin(s, username)
  \/ \E s \in c.socks : RandomNext(s)
  \/ \E s \in c.socks : RandomLeave(s)

\* Random signaling and random chat messages.
RelayNext(c) ==
  \/ \E kind \in RandomSignalKinds, s \in c.socks,
        targetSocketId \in c.socks \cup {Missing}, payload \in Payloads \cup {Missing} :
       RandomSignal(kind, s, targetSocketId, payload)
  \/ \E s \in c.socks, message \in MessageInputs : RandomSendMessage(s, message)

\* Every event, every input.
Everyone == AnyInput(Sockets, RoomNames)
Next ==
  \/ ConnectionNext(Everyone)
  \/ MembershipNext(Everyone, FALSE)
  \/ ChatNext(Everyone, FALSE)
  \/ SignalNext(Everyone, FALSE)
  \/ PairingNext(Everyone, AliasInputs)
  \/ RelayNext(Everyone)

Spec == Init /\ [][Next]_vars

\* Clients that only enter, skip and leave the random matchmaking.
MatchSpec ==
  Init /\ [][ConnectionNext(Everyone) \/ PairingNext(Everyone, AliasInputs)]_vars

\* Clients that use the whole random chat and give no alias: the alias is
\* only copied into the forwarded payloads.
RandomSpec ==
  Init /\ [][\/ ConnectionNext(Everyone)
            \/ PairingNext(Everyone, {Missing})
            \/ RelayNext(Everyone)]_vars

\* Clients that create, join and leave rooms with the plain room ids.
RoomClients ==
  Clients(Sockets, PlainRoomIds, 1..MaxSeatsInput, Usernames, BOOLEAN, {<<>>, Pass1})
RoomSpec ==
  Init /\ [][ConnectionNext(RoomClients) \/ MembershipNext(RoomClients, TRUE)]_vars

\* Public rooms only, for NumRoomSockets connections, with the id of the first
\* connection among the room ids.
IdRoomClients ==
  Clients(FirstSockets(NumRoomSockets), PlainRoomIds \cup {"s1"}, 1..MaxSeatsInput,
          Usernames, {TRUE}, {<<>>})
IdRoomSpec ==
  Init /\ [][ConnectionNext(IdRoomClients) \/ MembershipNext(IdRoomClients, TRUE)]_vars

\* Room signaling on top of the public rooms "lobby" and the id of the first
\* connection, every signaling input included.
SignalClients ==
  Clients(FirstSockets(NumRoomSockets), {"lobby", "s1"}, {MaxSeatsInput}, Usernames,
          {TRUE}, {<<>>})
SignalSpec ==
  Init /\ [][\/ ConnectionNext(SignalClients)
             \/ MembershipNext(SignalClients, TRUE)
             \/ SignalNext(SignalClients, FALSE)]_vars

\* Clients that use public rooms and the random chat side by side.
CleanupClients ==
  Clients(FirstSockets(NumRoomSockets), PlainRoomIds, {MaxSeatsInput}, Usernames,
          {TRUE}, {<<>>})
CleanupSpec ==
  Init /\ [][\/ ConnectionNext(CleanupClients)
            \/ MembershipNext(CleanupClients, TRUE)
            \/ PairingNext(CleanupClients, {Missing})]_vars

\* A password that is too short once trimmed.
ShortPassword == <<"a", "b", "c", Blank, Blank>>

\* Requests of every kind from NumRoomSockets connections that know one plain
\* room id and one username; the inputs reach every refusal of every handler.
RejectClients ==
  Clients(FirstSockets(NumRoomSockets), {"lobby", Missing}, SeatInputs,
          {"alice", Missing}, BOOLEAN, {<<>>, Pass1, ShortPassword})
RejectSpec ==
  Init /\ [][\/ ConnectionNext(RejectClients)
            \/ MembershipNext(RejectClients, FALSE)
            \/ ChatNext([RejectClients EXCEPT !.ids = PlainRoomIds \cup {Missing}], FALSE)
            \/ SignalNext(RejectClients, FALSE)
            \/ PairingNext(RejectClients, {Missing})
            \/ RelayNext(RejectClients)]_vars

\* Room chat on top of the public rooms "lobby" and the id of the first
\* connection, every sendMessage input included.
ChatSpec ==
  Init /\ [][\/ ConnectionNext(SignalClients)
             \/ MembershipNext(SignalClients, TRUE)
             \/ ChatNext(SignalClients, FALSE)]_vars

\* Random chat next to a public room named by the id of the first connection.
RelayRoomClients ==
  Clients(Sockets, {"s1"}, {MaxSeatsInput}, Usernames, {TRUE}, {<<>>})
RelayRoomSpec ==
  Init /\ [][\/ ConnectionNext(RelayRoomClients)
             \/ MembershipNext(RelayRoomClients, TRUE)
             \/ PairingNext(RelayRoomClients, {Missing})
             \/ \E s \in Sockets, message \in MessageInputs :
                  RandomSendMessage(s, message)]_vars

\* The room directory: public and private rooms created at different times.
DirectoryClients ==
  [Clients(FirstSockets(NumRoomSockets), PlainRoomIds, {MaxSeatsInput},
           Usernames, BOOLEAN, {Pass1})
     EXCEPT !.clock = 0..MaxClock]
DirectorySpec ==
  Init /\ [][\/ ConnectionNext(DirectoryClients)
             \/ MembershipNext(DirectoryClients, TRUE)]_vars

\* Events with a missing payload object or a non-string message.
MalformedNext(c) ==
  \/ \E name \in PayloadEvents, s \in c.socks, nothing \in Nothing :
       AbsentPayload(name, s, nothing)
  \/ \E name \in {"sendMessage", "randomSendMessage"}, s \in c.socks,
        roomId \in c.ids \cup {Missing} :
       NonStringMessage(name, s, roomId)

\* Clients of one public room and of the random chat that also send
\* malformed events.
MalformedClients ==
  Clients(FirstSockets(NumRoomSockets), {"lobby"}, {MaxSeatsInput}, Usernames,
          {TRUE}, {<<>>})
MalformedSpec ==
  Init /\ [][\/ ConnectionNext(MalformedClients)
            \/ MembershipNext(MalformedClients, TRUE)
            \/ PairingNext(MalformedClients, {Missing})
            \/ MalformedNext(MalformedClients)]_vars

\* Usernames for a room that a third person tries to enter.
JoinNames == Usernames \cup {"carol"}

\* The password of a private room as typed with blanks around it.
PaddedPass1 == <<Blank>> \o Pass1 \o <<Blank>>

\* A password no room has.
WrongPass == <<"w", "r", "o", "n", "g">>

\* Every connection creating and joining one room, public or private, with
\* the right password, a wrong one or none; refused requests included.
JoinClients ==
  Clients(Sockets, {"lobby"}, {MaxSeatsInput}, JoinNames, BOOLEAN,
          {<<>>, Pass1, PaddedPass1, WrongPass})
JoinSpec ==
  Init /\ [][ConnectionNext(JoinClients) \/ MembershipNext(JoinClients, FALSE)]_vars

(* -------------------------- random-chat page -------------------------- *)

\* The two versions of the random-chat page script: the one that sets
\* `started` before it emits randomJoin, and the one that sets it in the
\* acknowledgment callback.
StartedBeforeEmit == "startedBeforeEmit"
StartedInAck == "startedInAck"

serverVars ==
  <<conn, data, rooms, adapterRooms, randomWaitingQueue, randomPairs,
    outbox, lastEvent>>

\* socket.emit(name, payload) of a page: the event as it travels.
Request(name, username, targetSocketId) ==
  [name |-> name, username |-> username, targetSocketId |-> targetSocketId]

SocketEmit(s, requests) == [toServer EXCEPT ![s] = @ \o requests]

\* clearPeer(): closes the peer connection and forgets the partner.
clearPeer(page) == [page EXCEPT !.partnerSocketId = NULL]

\* startRandom(), with camera and microphone granted.  One version of the
\* script raises `started` and then emits randomJoin; the other emits and
\* raises `started` when the acknowledgment arrives.
StartRandom(s, username) ==
  /\ conn[s] = "open"
  /\ client[s].build # NULL
  /\ ~client[s].started
  /\ Len(toServer[s]) < MaxInFlight
  /\ client' = [client EXCEPT
                  ![s].started = (client[s].build = StartedBeforeEmit)]
  /\ toServer' = SocketEmit(s, << Request("randomJoin", username, NULL) >>)
  /\ UNCHANGED <<serverVars, toClient>>

\* stopRandom()
StopRandom(s) ==
  /\ conn[s] = "open"
  /\ client[s].started
  /\ Len(toServer[s]) < MaxInFlight
  /\ toServer' = SocketEmit(s, << Request("randomLeave", NULL, NULL) >>)
  /\ client' = [client EXCEPT ![s] = clearPeer([@ EXCEPT !.started = FALSE])]
  /\ UNCHANGED <<serverVars, toClient>>

\* handleNext()
HandleNext(s) ==
  /\ conn[s] = "open"
  /\ client[s].started
  /\ Len(toServer[s]) < MaxInFlight
  /\ client' = [client EXCEPT ![s] = clearPeer(@)]
  /\ toServer' = SocketEmit(s, << Request("randomNext", NULL, NULL) >>)
  /\ UNCHANGED <<serverVars, toClient>>

\* The listener of the page for one event: the page afterwards and what it
\* emits.  The awaits between creating an offer or an answer and emitting it
\* are taken to finish before the next event is handled.
Listener(page, e) ==
  LET same == [page |-> page, emits |-> <<>>] IN
  CASE e.ev = "randomWaiting" -> same
    [] e.ev = "randomMatched" ->
         IF ~page.started THEN same
         ELSE [page |-> [page EXCEPT !.partnerSocketId = e.val.partnerSocketId],
               emits |-> IF e.val.initiator
                         THEN << Request("randomOffer", NULL, e.val.partnerSocketId) >>
                         ELSE <<>>]
    [] e.ev = "randomOffer" ->
         IF ~page.started THEN same
         ELSE [page |-> [page EXCEPT !.partnerSocketId = e.val.fromSocketId],
               emits |-> << Request("randomAnswer", NULL, e.val.fromSocketId) >>]
    [] e.ev = "randomAnswer" ->
         IF page.build = StartedBeforeEmit
         THEN [page |-> [page EXCEPT !.partnerSocketId = e.val.fromSocketId],
               emits |-> <<>>]
         ELSE same
    [] e.ev = "randomDisconnected" -> [page |-> clearPeer(page), emits |-> <<>>]
    [] e.ev = "ack" ->
         IF page.build = StartedInAck
         THEN [page |-> [page EXCEPT !.started = @ \/ e.val.success],
               emits |-> <<>>]
         ELSE [page |-> [page EXCEPT !.started = @ /\ e.val.success],
               emits |-> <<>>]

\* The page handles the oldest event that has reached it.
Receive(s) ==
  /\ toClient[s] # <<>>
  /\ LET l == Listener(client[s], Head(toClient[s])) IN
     /\ client' = [client EXCEPT ![s] = l.page]
     /\ toServer' = SocketEmit(s, l.emits)
  /\ toClient' = [toClient EXCEPT ![s] = Tail(@)]
  /\ UNCHANGED serverVars

\* The server serves the oldest event the page of s has sent.
Dispatch(s) ==
  /\ toServer[s] # <<>>
  /\ \A c \in Sockets : Len(toClient[c]) <= MaxInFlight
  /\ LET req == Head(toServer[s]) IN
     \/ req.name = "randomJoin" /\ RandomJoin(s, req.username)
     \/ req.name = "randomNext" /\ RandomNext(s)
     \/ req.name = "randomLeave" /\ RandomLeave(s)
     \/ /\ req.name \in {"randomOffer", "randomAnswer"}
        /\ \E payload \in Payloads :
             RandomSignal(req.name, s, req.targetSocketId, payload)

\* Two browsers open the random-chat page, all running the same version of
\* the script.
PageSockets == FirstSockets(NumRoomSockets)

PageInit(build) ==
  /\ ServerInit
  /\ client = [s \in Sockets |->
                 IF s \in PageSockets THEN Page(build) ELSE NoPage]
  /\ toServer = [s \in Sockets |-> <<>>]
  /\ toClient = [s \in Sockets |-> <<>>]

PageNext ==
  \/ \E s \in PageSockets : Connect(s)
  \/ \E s \in PageSockets : StartRandom(s, Missing)
  \/ \E s \in PageSockets : StopRandom(s)
  \/ \E s \in PageSockets : HandleNext(s)
  \/ \E s \in PageSockets : Receive(s)
  \/ \E s \in PageSockets : Dispatch(s)

\* The pages that raise `started` before emitting randomJoin.
RandomPageSpec == PageInit(StartedBeforeEmit) /\ [][PageNext]_vars

\* The pages that raise `started` in the acknowledgment callback.
AckPageSpec == PageInit(StartedInAck) /\ [][PageNext]_vars

(* ------------------------------ properties ---------------------------- *)

\* The membership set of a room, as the code counts it (getUserCountInRoom).
Members(roomId) == IF HasRoom(rooms, roomId) THEN adapterRooms[roomId] ELSE {}

InQueue(s) == \E i \in 1..Len(randomWaitingQueue) : randomWaitingQueue[i] = s

\* The emissions of the last handler with one of the given event names.
Emitted(names) == { i \in 1..Len(outbox) : outbox[i].ev \in names }

\* The last handler acknowledged its request with this failure message.
Refused(message) ==
  /\ Len(outbox) = 1
  /\ outbox[1].ev = "ack"
  /\ ~outbox[1].val.success
  /\ outbox[1].val.message = message

\* C1: the pairing table is symmetric in every reachable state: whenever
\* randomPairs maps A to B it maps B to A.
C1_PairingSymmetric ==
  \A a \in Sockets, b \in Sockets :
    randomPairs[a] = b => randomPairs[b] = a

\* C1 witness: a pair stands right after a randomNext that dissolved another.
C1_Witness ==
  /\ lastEvent.name = "randomNext"
  /\ Emitted({"randomDisconnected"}) # {}
  /\ \E b \in Sockets : randomPairs[lastEvent.socket] = b /\ randomPairs[b] = lastEvent.socket

\* C2: a random signaling event from S is forwarded only to a target that is
\* S's partner, and S the target's, in the state the event is handled in;
\* when nothing is forwarded S gets a failure acknowledgment and nothing else
\* is emitted.
C2_RandomSignalOnlyToPartner ==
  [][lastEvent'.name \in RandomSignalKinds =>
       LET s == lastEvent'.socket
           forwarded == Emitted(RandomSignalKinds)'
       IN IF forwarded # {}
          THEN \A i \in forwarded :
                 /\ outbox'[i].val.fromSocketId = s
                 /\ \E t \in Sockets :
                      /\ outbox'[i].to = {t}
                      /\ randomPairs[s] = t /\ randomPairs[t] = s
          ELSE /\ Len(outbox') = 1
               /\ outbox'[1].ev = "ack" /\ outbox'[1].to = {s}
               /\ ~outbox'[1].val.success]_vars

\* C2 witness: a connection that took part in the random chat and has no
\* partner any more was refused a signaling event.
C2_Witness ==
  /\ lastEvent.name \in RandomSignalKinds
  /\ Refused("Target is not your active random partner")
  /\ data[lastEvent.socket].randomName # NULL
  /\ randomPairs[lastEvent.socket] = NULL
  /\ \E t \in Sockets : conn[t] = "open" /\ data[t].randomName # NULL /\ t # lastEvent.socket

\* C9: a connection appears in at most one pairing and is never both in the
\* waiting queue and in the pairing table.
C9_OnePairingAndNotQueued ==
  /\ \A c \in Sockets : InQueue(c) => randomPairs[c] = NULL
  /\ \A c \in Sockets :
       Cardinality({ a \in Sockets : randomPairs[a] = c }
                   \cup (IF randomPairs[c] = NULL THEN {} ELSE {randomPairs[c]})) <= 1

\* C9 witness: a randomJoin has just taken the waiting connection off the
\* queue and paired with it.
C9_Witness ==
  /\ lastEvent.name = "randomJoin"
  /\ Emitted({"randomMatched"}) # {}
  /\ \E c \in Sockets :
       /\ randomPairs[lastEvent.socket] = c /\ randomPairs[c] = lastEvent.socket
       /\ ~InQueue(c) /\ ~InQueue(lastEvent.socket)

\* C10: a waiting candidate is won by at most one requester: no two
\* different connections have the same connection as partner.
C10_CandidateWonOnce ==
  \A a \in Sockets, b \in Sockets :
    (a # b /\ randomPairs[a] # NULL) => randomPairs[a] # randomPairs[b]

\* C10 witness: two connections asked for a partner after a third one was
\* waiting; one of them won it and the other is left waiting.
C10_Witness ==
  /\ lastEvent.name \in {"randomJoin", "randomNext"}
  /\ Emitted({"randomWaiting"}) # {}
  /\ InQueue(lastEvent.socket)
  /\ \E a \in Sockets, c \in Sockets :
       /\ lastEvent.socket \notin {a, c}
       /\ randomPairs[a] = c /\ randomPairs[c] = a

\* C3: a room signaling event is delivered only when the sender's bound room
\* is the stated room and the target is in that room's membership set, and
\* then it goes to the target only, with the sender's id and username.
C3_RoomSignalToTargetOnly ==
  lastEvent.name \in RoomSignalKinds =>
    \A i \in Emitted(RoomSignalKinds) :
      /\ data[lastEvent.socket].roomId = outbox[i].val.roomId
      /\ outbox[i].val.fromSocketId = lastEvent.socket
      /\ outbox[i].val.fromUsername = data[lastEvent.socket].username
      /\ \E b \in Members(outbox[i].val.roomId) : outbox[i].to = {b}

\* C3, the refusals alone: a room signaling event whose sender is not bound
\* to the stated room, or whose target is not in that room's adapter room, is
\* answered with a failure acknowledgment and nothing else is emitted.
C3_UnauthorizedRefused ==
  [][lastEvent'.name \in RoomSignalKinds =>
       \A r \in RoomNames, t \in Sockets, p \in Payloads :
         LET s == lastEvent'.socket IN
         (RoomSignal(lastEvent'.name, s, r, t, p)
            /\ (data[s].roomId # r \/ t \notin adapterRooms[r])) =>
           /\ Emitted(RoomSignalKinds)' = {}
           /\ Len(outbox') = 1
           /\ outbox'[1].ev = "ack" /\ outbox'[1].to = {s}
           /\ ~outbox'[1].val.success]_vars

\* C4: no connection belongs to the membership sets of two different rooms.
C4_AtMostOneRoom ==
  \A c \in Sockets : Cardinality({ r \in DOMAIN rooms : c \in Members(r) }) <= 1

\* C5: every room record has at least one member.
C5_NoEmptyRoom ==
  \A r \in DOMAIN rooms : Members(r) # {}

\* C6: a connection is in the membership set of room R exactly when its
\* session roomId is R, and a session roomId names an existing room.
C6_MembershipMatchesSession ==
  /\ \A c \in Sockets, r \in DOMAIN rooms : c \in Members(r) <=> data[c].roomId = r
  /\ \A c \in Sockets : data[c].roomId # NULL => HasRoom(rooms, data[c].roomId)

\* C7: the number of members of a room never exceeds its maxSeats.
C7_WithinCapacity ==
  \A r \in DOMAIN rooms : Cardinality(Members(r)) <= rooms[r].maxSeats

\* C8: no two distinct members of a room hold the same username.
C8_UniqueUsernames ==
  \A r \in DOMAIN rooms : \A a \in Members(r), b \in Members(r) :
    (a # b /\ data[a].username # NULL) => data[a].username # data[b].username

\* The number of entries of the waiting queue that hold connection s.
QueueCount(s) ==
  Cardinality({ i \in 1..Len(randomWaitingQueue) : randomWaitingQueue[i] = s })

\* C11: the waiting queue never holds the same connection twice, and a
\* randomJoin of A while A is the only one waiting leaves the queue holding
\* A exactly once.
C11_QueueHasNoDuplicates ==
  [][/\ \A c \in Sockets : QueueCount(c)' <= 1
     /\ \A a \in Sockets :
          (randomWaitingQueue = <<a>> /\ lastEvent' = Event("randomJoin", a)) =>
            randomWaitingQueue' = <<a>>]_vars

\* C11 witness: a connection that is waiting under the alias of its latest
\* randomJoin is told to wait and is alone in the queue.
C11_Witness ==
  /\ lastEvent.name = "randomJoin"
  /\ Emitted({"randomWaiting"}) # {}
  /\ randomWaitingQueue = << lastEvent.socket >>
  /\ data[lastEvent.socket].randomName = "alice"

\* C12: with live connections A and B unpaired and the queue empty, the
\* randomJoin of A puts A alone in the queue, and the randomJoin of B that
\* follows makes A and B each other's partner and leaves the queue empty.
C12_TwoJoinsPair ==
  [][\A a \in Sockets, b \in Sockets :
       (a # b /\ conn[a] = "open" /\ conn[b] = "open"
          /\ randomPairs[a] = NULL /\ randomPairs[b] = NULL) =>
         /\ (randomWaitingQueue = <<>> /\ lastEvent' = Event("randomJoin", a)) =>
              (randomWaitingQueue' = <<a>> /\ randomPairs' = randomPairs)
         /\ (randomWaitingQueue = <<a>> /\ lastEvent' = Event("randomJoin", b)) =>
              /\ randomPairs'[a] = b /\ randomPairs'[b] = a
              /\ randomWaitingQueue' = <<>>]_vars

\* C12 witness: the second randomJoin has just matched the two connections,
\* nobody else is paired and the queue is empty.
C12_Witness ==
  /\ lastEvent.name = "randomJoin"
  /\ Emitted({"randomMatched"}) # {}
  /\ randomWaitingQueue = <<>>
  /\ \E a \in Sockets :
       /\ a # lastEvent.socket
       /\ randomPairs[a] = lastEvent.socket /\ randomPairs[lastEvent.socket] = a
       /\ \A c \in Sockets \ {a, lastEvent.socket} : randomPairs[c] = NULL

\* C13: when the only member of a room leaves it (leaveRoom) or disconnects,
\* the room record is gone after that step: the room is not in the public
\* directory, a joinRoom to its id is answered "Room does not exist" and a
\* createRoom with its id is accepted.
C13_LastMemberGoneRoomGone ==
  [][\A c \in Sockets, r \in DOMAIN rooms :
       (/\ Members(r) = {c}
        /\ \/ lastEvent' = Event("disconnect", c)
           \/ lastEvent' = Event("leaveRoom", c) /\ data[c].roomId = r) =>
         /\ ~HasRoom(rooms', r)
         /\ \A i \in DOMAIN getPublicRooms(rooms', adapterRooms') :
              getPublicRooms(rooms', adapterRooms')[i].roomId # r
         /\ \A username \in Usernames, password \in {<<>>, Pass1} :
              joinRoomError(rooms', adapterRooms', conn', data', r, username, password)
                = "Room does not exist"
         /\ \A username \in Usernames :
              createRoomError(rooms', r, MinSeats, username, TRUE, <<>>) = NULL]_vars

\* An emission reaches somebody.
Delivered(e) == e.to # {}

\* The emissions of a handler as the connections other than c receive them.
ToOthers(out, c) ==
  SelectSeq([i \in 1..Len(out) |-> [out[i] EXCEPT !.to = @ \ {c}]], Delivered)

\* C14: for every live connection c, the rooms, the memberships, the queue,
\* the pairing table and the notifications to the other connections that
\* result from c disconnecting are those that result from c's leaveRoom
\* followed by c's randomLeave, and after the disconnect c is in no
\* membership set, not in the queue and not in the pairing table.
C14_DisconnectIsLeaveThenRandomLeave ==
  \A c \in Sockets :
    conn[c] = "open" =>
      LET d == disconnectHandler(conn, data, rooms, adapterRooms,
                                 randomWaitingQueue, randomPairs, c)
          l == leaveRoomHandler(rooms, adapterRooms, conn, data, c)
          r == randomLeaveHandler(randomWaitingQueue, randomPairs, l.adapter, c)
      IN /\ d.rooms = l.rooms
         /\ \A room \in DOMAIN d.rooms : d.adapter[room] = l.adapter[room]
         /\ d.queue = r.queue
         /\ d.pairs = r.pairs
         /\ ToOthers(d.out, c) = ToOthers(l.out \o r.out, c)
         /\ \A room \in DOMAIN d.rooms : c \notin d.adapter[room]
         /\ \A i \in 1..Len(d.queue) : d.queue[i] # c
         /\ \A x \in Sockets : d.pairs[x] # c /\ d.pairs[c] = NULL

\* The event names a handler's emissions carry.
EventsOf(out) == { out[i].ev : i \in 1..Len(out) }

\* C15: for every live connection, a second leaveRoom right after the first
\* changes no room, membership or session and emits no userLeft, and a
\* second randomLeave right after the first changes neither the queue nor
\* the pairing table, is acknowledged with success and emits no
\* randomDisconnected.
C15_CleanupIdempotent ==
  \A c \in Sockets :
    conn[c] = "open" =>
      LET l1 == leaveRoomHandler(rooms, adapterRooms, conn, data, c)
          l2 == leaveRoomHandler(l1.rooms, l1.adapter, conn, l1.data, c)
          r1 == randomLeaveHandler(randomWaitingQueue, randomPairs, adapterRooms, c)
          r2 == randomLeaveHandler(r1.queue, r1.pairs, adapterRooms, c)
      IN /\ l2.rooms = l1.rooms /\ l2.adapter = l1.adapter /\ l2.data = l1.data
         /\ "userLeft" \notin EventsOf(l2.out)
         /\ r2.queue = r1.queue /\ r2.pairs = r1.pairs
         /\ r2.out = << Ack(c, TRUE, NULL) >>

\* C15 witness: a connection whose first leaveRoom tells another member
\* that it left and whose first randomLeave tells its partner.
C15_Witness ==
  \E c \in Sockets :
    /\ conn[c] = "open"
    /\ \E i \in 1..Len(leaveRoomHandler(rooms, adapterRooms, conn, data, c).out) :
         LET e == leaveRoomHandler(rooms, adapterRooms, conn, data, c).out[i] IN
         e.ev = "userLeft" /\ e.to # {}
    /\ "randomDisconnected" \in
         EventsOf(randomLeaveHandler(randomWaitingQueue, randomPairs, adapterRooms, c).out)

\* The last handler answered its request with success:false.
AnsweredFalse ==
  \E i \in 1..Len(outbox) : outbox[i].ev = "ack" /\ ~outbox[i].val.success

\* C16: a request answered with success:false changes no room record,
\* membership, session, queue entry or pairing, and emits nothing but the
\* acknowledgment to the requester.
C16_RejectionChangesNothing ==
  [][AnsweredFalse' =>
       /\ UNCHANGED <<conn, data, rooms, adapterRooms, randomWaitingQueue, randomPairs>>
       /\ Len(outbox') = 1
       /\ outbox'[1].to = {lastEvent'.socket}]_vars

\* C16 witness: a joinRoom was refused because the room is full, while the
\* room has a member and the requester is in the random queue or paired.
C16_Witness ==
  /\ lastEvent.name = "joinRoom"
  /\ Refused("Room is full")
  /\ \E r \in DOMAIN rooms : Members(r) # {} /\ lastEvent.socket \notin Members(r)
  /\ InQueue(lastEvent.socket) \/ randomPairs[lastEvent.socket] # NULL

\* C17: no inbound event whose payload object is absent or whose message
\* field is not a string makes its handler raise an exception.
C17_MalformedInputNeverThrows ==
  Emitted({"uncaughtException"}) = {}

\* C18: joinRoom reports the first failing check in the order: room
\* absent, password of a private room wrong, room full, username taken; it
\* succeeds when none fails.
C18_JoinChecksInOrder ==
  [][lastEvent'.name = "joinRoom" =>
       \A r \in JoinClients.ids, u \in JoinClients.names, pw \in JoinClients.passwords :
         JoinRoom(lastEvent'.socket, r, u, pw) =>
           LET answer == outbox'[1].val
               absent == ~HasRoom(rooms, r)
               unauthorized == ~rooms[r].isPublic /\ Trim(pw) # rooms[r].password
               full == Cardinality(Members(r)) >= rooms[r].maxSeats
               conflict == \E m \in Members(r) : data[m].username = u
           IN /\ outbox'[1].ev = "ack"
              /\ IF absent THEN ~answer.success /\ answer.message = "Room does not exist"
                 ELSE IF unauthorized
                 THEN ~answer.success /\ answer.message = "Incorrect room password"
                 ELSE IF full THEN ~answer.success /\ answer.message = "Room is full"
                 ELSE IF conflict
                 THEN ~answer.success
                      /\ answer.message = "Username already taken in this room"
                 ELSE answer.success]_vars

\* C18 witness: "lobby" has two seats, alice and bob are in it, and the
\* joinRoom of a third connection has just been refused because the room is
\* full.
C18_Witness ==
  /\ lastEvent.name = "joinRoom"
  /\ Refused("Room is full")
  /\ HasRoom(rooms, "lobby")
  /\ rooms["lobby"].maxSeats = 2
  /\ lastEvent.socket \notin Members("lobby")
  /\ { data[m].username : m \in Members("lobby") } = {"alice", "bob"}

\* C19: a joinRoom to a private room with a password whose trimmed value
\* differs from the stored one is refused and adds nobody to the room; with
\* the stored password, a free seat and a free username it succeeds and the
\* requester is a member; a public room is entered with any password or none.
C19_PrivateRoomNeedsPassword ==
  [][lastEvent'.name = "joinRoom" =>
       \A r \in JoinClients.ids, u \in JoinClients.names, pw \in JoinClients.passwords :
         (JoinRoom(lastEvent'.socket, r, u, pw) /\ HasRoom(rooms, r)) =>
           LET s == lastEvent'.socket
               answer == outbox'[1].val
               admissible == /\ Cardinality(Members(r)) < rooms[r].maxSeats
                             /\ \A m \in Members(r) : data[m].username # u
           IN IF ~rooms[r].isPublic /\ Trim(pw) # rooms[r].password
              THEN /\ Refused("Incorrect room password")'
                   /\ adapterRooms'[r] = adapterRooms[r]
              ELSE admissible => (answer.success /\ s \in adapterRooms'[r])]_vars

\* C19 witness: a connection has just joined a private room of which it was
\* not a member before, next to the room's creator.
C19_Witness ==
  /\ lastEvent.name = "joinRoom"
  /\ outbox[1].ev = "ack" /\ outbox[1].val.success
  /\ \E r \in DOMAIN rooms :
       /\ ~rooms[r].isPublic
       /\ rooms[r].password = Pass1
       /\ data[lastEvent.socket].roomId = r
       /\ Cardinality(Members(r)) = 2

\* C20: a createRoom with the id of an existing room is refused, with
\* "Room ID already exists" when its fields are valid, and no createRoom
\* changes the record or the membership of an existing room; a createRoom
\* that succeeds leaves a record under an id that was free and the creator's
\* session bound to that id and to a username.
C20_CreateExistingRefused ==
  /\ [](\A r \in DOMAIN rooms, n \in JoinClients.seats, u \in JoinClients.names,
           pub \in JoinClients.publics, pw \in JoinClients.passwords :
          (pub \/ Len(Trim(pw)) \in MinPasswordLen..MaxPasswordLen) =>
            createRoomError(rooms, r, n, u, pub, pw) = "Room ID already exists")
  /\ [][lastEvent'.name = "createRoom" =>
          LET s == lastEvent'.socket
              answer == outbox'[1].val
          IN /\ outbox'[1].ev = "ack"
             /\ \A old \in DOMAIN rooms :
                  /\ HasRoom(rooms', old) /\ rooms'[old] = rooms[old]
                  /\ adapterRooms'[old] = adapterRooms[old]
             /\ answer.success =>
                  \E r \in DOMAIN rooms' \ DOMAIN rooms :
                    /\ DOMAIN rooms' = DOMAIN rooms \cup {r}
                    /\ s \in adapterRooms'[r]
                    /\ data'[s].roomId = r /\ data'[s].username \in JoinClients.names]_vars

\* C20 witness: a createRoom has just been refused because the id belongs to
\* a room that another connection is in.
C20_Witness ==
  /\ lastEvent.name = "createRoom"
  /\ Refused("Room ID already exists")
  /\ HasRoom(rooms, "lobby")
  /\ Members("lobby") # {}
  /\ lastEvent.socket \notin Members("lobby")

\* C21: right after a successful createRoom the new room has exactly one
\* member, and that is the count getUserCountInRoom returns.
C21_NewRoomHasOneMember ==
  (lastEvent.name = "createRoom" /\ outbox[1].ev = "ack" /\ outbox[1].val.success) =>
    LET r == data[lastEvent.socket].roomId IN
    /\ Members(r) = {lastEvent.socket}
    /\ getUserCountInRoom(rooms, adapterRooms, r) = 1

\* C22: a randomJoin of an unpaired connection c, and a randomNext of c after
\* its session was ended, pairs c with the first queue entry that is not c,
\* is connected and has no partner, and takes that entry off the queue; when
\* there is none, c is put at the tail of the queue and gets randomWaiting.
C22_FirstEligibleWins ==
  [][(\/ lastEvent'.name = "randomNext"
      \/ lastEvent'.name = "randomJoin" /\ randomPairs[lastEvent'.socket] = NULL) =>
       LET c == lastEvent'.socket
           left == IF lastEvent'.name = "randomNext" THEN {c, randomPairs[c]} ELSE {}
           q == SelectSeq(randomWaitingQueue, LAMBDA x : x # c)
           eligible == { i \in 1..Len(q) :
                           /\ conn[q[i]] = "open"
                           /\ randomPairs[q[i]] = NULL \/ q[i] \in left }
       IN IF eligible # {}
          THEN LET k == CHOOSE i \in eligible : \A j \in eligible : i <= j IN
               /\ randomPairs'[c] = q[k] /\ randomPairs'[q[k]] = c
               /\ \A i \in 1..Len(randomWaitingQueue') :
                    randomWaitingQueue'[i] \notin {c, q[k]}
               /\ Emitted({"randomWaiting"})' = {}
          ELSE /\ randomPairs'[c] = NULL
               /\ randomWaitingQueue' # <<>>
               /\ randomWaitingQueue'[Len(randomWaitingQueue')] = c
               /\ \E i \in Emitted({"randomWaiting"})' : outbox'[i].to = {c}]_vars

\* C22 witness: a request has just been matched with the connection that
\* was waiting, while a third connection that is neither is live.
C22_Witness ==
  /\ lastEvent.name \in {"randomJoin", "randomNext"}
  /\ Emitted({"randomMatched"}) # {}
  /\ randomWaitingQueue = <<>>
  /\ \E a \in Sockets, b \in Sockets :
       /\ a # lastEvent.socket /\ b \notin {a, lastEvent.socket}
       /\ randomPairs[lastEvent.socket] = a
       /\ conn[b] = "open" /\ randomPairs[b] = NULL

\* C23: a step that pairs two connections emits exactly two randomMatched
\* events, one to the requester naming the candidate with initiator true and
\* one to the candidate naming the requester with initiator false; a step
\* that pairs nobody emits no randomMatched.
C23_MatchedPair ==
  LET m == Emitted({"randomMatched"})
      c == lastEvent.socket
      p == randomPairs[c]
  IN /\ Cardinality(m) = 2
     /\ \E i \in m : /\ outbox[i].to = {c}
                      /\ outbox[i].val.partnerSocketId = p
                      /\ outbox[i].val.initiator
     /\ \E i \in m : /\ outbox[i].to = {p}
                      /\ outbox[i].val.partnerSocketId = c
                      /\ ~outbox[i].val.initiator

C23_TwoMatchedEvents ==
  [][LET c == lastEvent'.socket
         paired == /\ lastEvent'.name \in {"randomJoin", "randomNext"}
                   /\ randomPairs'[c] # NULL
                   /\ lastEvent'.name = "randomJoin" => randomPairs[c] = NULL
     IN IF paired THEN C23_MatchedPair' ELSE Emitted({"randomMatched"})' = {}]_vars

\* C23 witness: a randomNext has just paired its requester with the
\* connection that was waiting, and both were told.
C23_Witness ==
  /\ lastEvent.name = "randomNext"
  /\ randomPairs[lastEvent.socket] # NULL
  /\ C23_MatchedPair

C25_NextNeverRepairs ==
  [][\A a \in Sockets :
       (lastEvent'.name = "randomNext" /\ lastEvent'.socket = a) =>
         /\ \/ /\ randomPairs'[a] \notin {NULL, a, randomPairs[a]}
               /\ ~InQueue(a)'
            \/ /\ randomPairs'[a] = NULL
               /\ randomWaitingQueue' # <<>>
               /\ randomWaitingQueue'[Len(randomWaitingQueue')] = a
         /\ \A b \in Sockets : randomPairs[a] = b => randomPairs'[b] = NULL
         /\ \A i \in Emitted({"randomDisconnected"})',
               j \in Emitted({"randomMatched", "randomWaiting"})' : i < j]_vars

\* C25 witness: a randomNext has just left one partner, who was told, and
\* paired its requester with a third connection.
C25_Witness ==
  \E b \in Sockets :
    /\ lastEvent.name = "randomNext"
    /\ b # lastEvent.socket
    /\ \E i \in Emitted({"randomDisconnected"}) : b \in outbox[i].to
    /\ randomPairs[lastEvent.socket] \notin {NULL, b, lastEvent.socket}
    /\ randomPairs[b] = NULL

\* C26: a live connection that is waiting in the queue with no partner is,
\* after any step other than its own randomLeave or disconnect, still in the
\* queue or paired; and two connections that are in the queue before and
\* after a step that is not a request of either keep their order.
C26_WaitingStaysQueued ==
  [][/\ \A w \in Sockets :
          (/\ InQueue(w) /\ conn[w] = "open" /\ randomPairs[w] = NULL
           /\ ~(lastEvent'.socket = w /\ lastEvent'.name \in {"randomLeave", "disconnect"})) =>
            InQueue(w)' \/ randomPairs'[w] # NULL
     /\ \A i, j \in 1..Len(randomWaitingQueue), k, l \in 1..Len(randomWaitingQueue') :
          (/\ i < j
           /\ randomWaitingQueue'[k] = randomWaitingQueue[i]
           /\ randomWaitingQueue'[l] = randomWaitingQueue[j]
           /\ lastEvent'.socket \notin {randomWaitingQueue[i], randomWaitingQueue[j]}) =>
            k < l]_vars

\* C26 witness: a paired connection has just left its partner with
\* randomLeave while a third connection was waiting, and the third
\* connection is still the one waiting.
C26_Witness ==
  \E w \in Sockets, b \in Sockets :
    /\ lastEvent.name = "randomLeave"
    /\ \E i \in Emitted({"randomDisconnected"}) : outbox[i].to = {b}
    /\ w \notin {b, lastEvent.socket}
    /\ randomWaitingQueue = <<w>>
    /\ conn[w] = "open" /\ randomPairs[w] = NULL

\* C27: a sendMessage that succeeds emits exactly one newMessage, carrying
\* the sender's bound username and a trimmed message of 1 to 500 characters,
\* to the room the sender is bound to, which reaches the sender and every
\* connection bound to that room; a sendMessage that fails emits no
\* newMessage. A request naming a room other than the sender's bound room,
\* or from a sender with no bound username, is refused.
C27_Trimmed(m) ==
  /\ Len(m) \in 1..MaxMessageLen
  /\ m[1] # Blank /\ m[Len(m)] # Blank

C27_MessageToWholeRoom ==
  /\ [](\A s \in Sockets, roomId \in RoomNames \cup {Missing}, message \in MessageInputs :
          (data[s].roomId # roomId \/ data[s].username = NULL) =>
            sendMessageError(data, s, roomId, message) # NULL)
  /\ [][\A s \in Sockets :
          (lastEvent'.name = "sendMessage" /\ lastEvent'.socket = s) =>
            IF AnsweredFalse'
            THEN Emitted({"newMessage"})' = {}
            ELSE /\ data[s].roomId # NULL /\ data[s].username # NULL
                 /\ Cardinality(Emitted({"newMessage"})') = 1
                 /\ \A i \in Emitted({"newMessage"})' :
                      /\ outbox'[i].to = adapterRooms[data[s].roomId]
                      /\ s \in outbox'[i].to
                      /\ \A m \in Sockets :
                           data[m].roomId = data[s].roomId => m \in outbox'[i].to
                      /\ outbox'[i].val.username = data[s].username
                      /\ C27_Trimmed(outbox'[i].val.message)]_vars

\* C27 witness: a message has just been delivered to its sender and to
\* another connection bound to the same room.
C27_Witness ==
  /\ lastEvent.name = "sendMessage"
  /\ \E i \in Emitted({"newMessage"}), m \in Sockets :
       /\ m # lastEvent.socket
       /\ data[m].roomId = data[lastEvent.socket].roomId
       /\ {m, lastEvent.socket} \subseteq outbox[i].to

\* C27 witness of the refusals: a sendMessage has just been refused because
\* it named a room other than the one its sender is bound to.
C27_RefusedWitness ==
  lastEvent.name = "sendMessage" /\ Refused("Not in this room")

\* C28: a randomSendMessage without a partner is refused; a refused
\* randomSendMessage emits no randomNewMessage; one that succeeds had a
\* partner and a trimmed message of 1 to 500 characters, and its
\* randomNewMessage, tagged with the sender's id, reaches the sender and the
\* partner once each and nobody else.
C28_MessageToPairOnly ==
  /\ [](\A s \in Sockets, message \in MessageInputs :
          randomPairs[s] = NULL => randomSendMessageError(randomPairs, s, message) # NULL)
  /\ [][\A s \in Sockets :
          (lastEvent'.name = "randomSendMessage" /\ lastEvent'.socket = s) =>
            IF AnsweredFalse'
            THEN Emitted({"randomNewMessage"})' = {}
            ELSE /\ randomPairs[s] # NULL
                 /\ \A c \in Sockets :
                      Cardinality({ i \in Emitted({"randomNewMessage"})' : c \in outbox'[i].to })
                        = IF c \in {s, randomPairs[s]} THEN 1 ELSE 0
                 /\ \A i \in Emitted({"randomNewMessage"})' :
                      /\ outbox'[i].val.fromSocketId = s
                      /\ Len(outbox'[i].val.message) \in 1..MaxMessageLen
                      /\ outbox'[i].val.message = Trim(outbox'[i].val.message)]_vars

\* C29: every publicRooms event lists exactly the rooms that are public when
\* its handler ends, each once, with currentUsers the number of connections
\* in the room and createdAt the room's, latest createdAt first; no private
\* room is listed.
C29_Listing(list) ==
  /\ { list[i].roomId : i \in 1..Len(list) } = { r \in DOMAIN rooms : rooms[r].isPublic }
  /\ \A i, j \in 1..Len(list) :
       /\ list[i].roomId = list[j].roomId => i = j
       /\ i < j => list[i].createdAt >= list[j].createdAt
  /\ \A i \in 1..Len(list) :
       /\ list[i].currentUsers = Cardinality(adapterRooms[list[i].roomId])
       /\ list[i].maxSeats = rooms[list[i].roomId].maxSeats
       /\ list[i].createdAt = rooms[list[i].roomId].createdAt

C29_DirectoryIsPublicNewestFirst ==
  \A n \in Emitted({"publicRooms"}) : C29_Listing(outbox[n].val)

\* C29 witness: a directory has just been sent that lists two public rooms
\* created at different times, the later one first, one of them with two
\* connections in it.
C29_Witness ==
  \E n \in Emitted({"publicRooms"}) :
    /\ Len(outbox[n].val) = 2
    /\ outbox[n].val[1].createdAt > outbox[n].val[2].createdAt
    /\ \E i \in 1..2 : outbox[n].val[i].currentUsers = 2

\* C29 witness of the filter: a directory has just been sent to all
\* connections while a private room with two connections in it exists, and
\* it lists only the public room.
C29_PrivateWitness ==
  \E n \in Emitted({"publicRooms"}), r \in DOMAIN rooms :
    /\ ~rooms[r].isPublic /\ Cardinality(adapterRooms[r]) = 2
    /\ Cardinality(outbox[n].to) = 2
    /\ Len(outbox[n].val) = 1 /\ outbox[n].val[1].roomId # r

\* C30: a createRoom that succeeds sends the directory to the connections
\* exactly when the room it created is public.
C30_RefreshOnlyForPublicRoom ==
  (lastEvent.name = "createRoom" /\ ~AnsweredFalse) =>
    (Emitted({"publicRooms"}) # {} <=> rooms[data[lastEvent.socket].roomId].isPublic)

\* C30, as the code has it: a createRoom that succeeds sends the directory
\* once, to every live connection, whether the room it created is public or
\* private; the directory lists the new room exactly when it is public.
C30_RefreshAfterEveryCreate ==
  (lastEvent.name = "createRoom" /\ ~AnsweredFalse) =>
    LET r == data[lastEvent.socket].roomId IN
    /\ Cardinality(Emitted({"publicRooms"})) = 1
    /\ \A n \in Emitted({"publicRooms"}) :
         /\ outbox[n].to = { c \in Sockets : conn[c] = "open" }
         /\ rooms[r].isPublic <=>
              \E i \in 1..Len(outbox[n].val) : outbox[n].val[i].roomId = r

\* C30 witness: a private room has just been created while another
\* connection is live, and the directory went out to both connections.
C30_Witness ==
  /\ lastEvent.name = "createRoom" /\ ~AnsweredFalse
  /\ ~rooms[data[lastEvent.socket].roomId].isPublic
  /\ \E n \in Emitted({"publicRooms"}) : Cardinality(outbox[n].to) = 2

\* C31: a leaveRoom of a connection with no bound room changes nothing and
\* emits nothing.  Otherwise it takes that connection, and nobody else, out
\* of its bound room, clears the roomId and username of its session, emits
\* exactly one userLeft, to the connections left in the room and not to the
\* leaver, with a roster that does not contain the leaver, and leaves every
\* room record as it is unless nobody is left in the room.
C31_LeaveRoomEffect ==
  [][\A s \in Sockets :
       (lastEvent'.name = "leaveRoom" /\ lastEvent'.socket = s) =>
         IF data[s].roomId = NULL
         THEN /\ outbox' = <<>>
              /\ UNCHANGED <<conn, data, rooms, adapterRooms, randomWaitingQueue, randomPairs>>
         ELSE \E r \in RoomNames :
              /\ r = data[s].roomId
              /\ adapterRooms' = [adapterRooms EXCEPT ![r] = @ \ {s}]
              /\ data' = [data EXCEPT ![s].roomId = NULL, ![s].username = NULL]
              /\ Cardinality(Emitted({"userLeft"})') = 1
              /\ \A i \in Emitted({"userLeft"})' :
                   /\ outbox'[i].to = adapterRooms[r] \ {s}
                   /\ outbox'[i].val.socketId = s
                   /\ \A u \in outbox'[i].val.usersDetailed : u.socketId # s
              /\ \A x \in DOMAIN rooms :
                   (x # r \/ adapterRooms[r] \ {s} # {}) =>
                     x \in DOMAIN rooms' /\ rooms'[x] = rooms[x]
              /\ UNCHANGED <<conn, randomWaitingQueue, randomPairs>>]_vars

\* C31 witness: a connection has just left a room in which another
\* connection, bound to that room, stays; the other connection was told and
\* the room record is still there.
C31_Witness ==
  /\ lastEvent.name = "leaveRoom"
  /\ data[lastEvent.socket].roomId = NULL
  /\ \E i \in Emitted({"userLeft"}), m \in Sockets :
       /\ outbox[i].to = {m}
       /\ m # lastEvent.socket
       /\ data[m].roomId # NULL /\ HasRoom(rooms, data[m].roomId)
       /\ m \in adapterRooms[data[m].roomId]
       /\ \E u \in outbox[i].val.usersDetailed : u.socketId = m

\* C32: the users list of every room record holds the usernames of the
\* connections that are in the room, one entry for each.
C32_StoredUsersAreMembers ==
  \A r \in DOMAIN rooms :
    /\ Len(rooms[r].users) = Cardinality(Members(r))
    /\ { rooms[r].users[i] : i \in 1..Len(rooms[r].users) }
         = getUsersInRoom(rooms, adapterRooms, conn, data, r)

\* C33: a randomJoin of a connection that has a partner is acknowledged
\* with status "paired" and nothing else is emitted; the queue and the
\* pairing table are unchanged.
C33_JoinWhilePairedChangesNothing ==
  [][\A s \in Sockets :
       (/\ lastEvent'.name = "randomJoin" /\ lastEvent'.socket = s
        /\ randomPairs[s] # NULL) =>
         /\ outbox' = << Emit("ack", {s}, [success |-> TRUE, status |-> "paired"]) >>
         /\ UNCHANGED <<randomWaitingQueue, randomPairs, conn, rooms, adapterRooms>>]_vars

\* C33 witness: a paired connection has just sent randomJoin, while a third
\* connection is waiting in the queue.
C33_Witness ==
  /\ lastEvent.name = "randomJoin"
  /\ \E i \in 1..Len(outbox) : outbox[i].ev = "ack" /\ outbox[i].val.status = "paired"
  /\ randomPairs[lastEvent.socket] # NULL
  /\ randomWaitingQueue # <<>>

\* C34: the status of a randomJoin acknowledgment is "paired" exactly when
\* the requester has a partner once the handler is done, and "searching"
\* exactly when the requester is then waiting in the queue.
C34_AckStatusIsState ==
  lastEvent.name = "randomJoin" =>
    \A i \in Emitted({"ack"}) :
      /\ outbox[i].val.status = "paired" <=> randomPairs[lastEvent.socket] # NULL
      /\ outbox[i].val.status = "searching" <=> InQueue(lastEvent.socket)

\* C35: the roomState sent after a createRoom or joinRoom that succeeded
\* reports as currentUsers the number of connections in the room once the
\* handler is done.
C35_RoomStateCountsMembers ==
  lastEvent.name \in {"createRoom", "joinRoom"} =>
    \A i \in Emitted({"roomState"}) :
      outbox[i].val.currentUsers = Cardinality(adapterRooms[outbox[i].val.roomId])

\* C36: every connection a newMessage is delivered to is bound to the room
\* the message was sent in, which is the room its sender is bound to.
C36_MessageOnlyToBoundMembers ==
  lastEvent.name = "sendMessage" =>
    \A i \in Emitted({"newMessage"}) :
      \A m \in outbox[i].to : data[m].roomId = data[lastEvent.socket].roomId

\* C39: the waiting queue never holds more than one connection, and a
\* randomJoin or randomNext of a connection that is unpaired when the match is
\* attempted, made while another connection is waiting, pairs the two in that
\* step and leaves the queue empty.
C39_AtMostOneWaiting ==
  /\ [](Len(randomWaitingQueue) <= 1)
  /\ [][\A s \in Sockets, w \in Sockets :
          ( /\ lastEvent'.name \in {"randomJoin", "randomNext"}
            /\ lastEvent'.socket = s
            /\ w # s
            /\ InQueue(w)
            /\ lastEvent'.name = "randomJoin" => randomPairs[s] = NULL )
          => /\ randomPairs'[s] = w
             /\ randomPairs'[w] = s
             /\ randomWaitingQueue' = <<>>]_vars

\* A randomNext has just paired the requester with the connection that was
\* waiting, and the partner it left behind is live, unpaired and not queued.
C39_Witness ==
  \E w \in Sockets, b \in Sockets :
    /\ lastEvent.name = "randomNext"
    /\ w # lastEvent.socket /\ b \notin {w, lastEvent.socket}
    /\ randomPairs[lastEvent.socket] = w /\ randomPairs[w] = lastEvent.socket
    /\ \E i \in Emitted({"randomDisconnected"}) : outbox[i].to = {b}
    /\ randomWaitingQueue = <<>>
    /\ conn[b] = "open" /\ randomPairs[b] = NULL

\* C40: every connection in the waiting queue, every key of the pairing
\* table and every partner recorded in it is a connected connection; after a
\* disconnect the id of the connection that left is in neither structure.
C40_OnlyLiveConnectionsRecorded ==
  /\ [](\A s \in Sockets :
          /\ InQueue(s) => conn[s] = "open"
          /\ randomPairs[s] # NULL
               => conn[s] = "open" /\ conn[randomPairs[s]] = "open")
  /\ [][\A s \in Sockets :
          (lastEvent'.name = "disconnect" /\ lastEvent'.socket = s)
          => /\ \A i \in DOMAIN randomWaitingQueue' : randomWaitingQueue'[i] # s
             /\ \A t \in Sockets : randomPairs'[t] # s
             /\ randomPairs'[s] = NULL]_vars

\* A paired connection has just disconnected: its partner was told, is
\* connected and unpaired, and another connection is still waiting.
C40_Witness ==
  \E w \in Sockets, b \in Sockets :
    /\ lastEvent.name = "disconnect"
    /\ conn[lastEvent.socket] = "closed"
    /\ \E i \in Emitted({"randomDisconnected"}) : outbox[i].to = {b}
    /\ conn[b] = "open" /\ randomPairs[b] = NULL
    /\ w \notin {b, lastEvent.socket}
    /\ randomWaitingQueue = <<w>>

\* The page of s is handling the oldest event that has reached it.
Handling(s) == toClient[s] # <<>> /\ toClient'[s] = Tail(toClient[s])

\* C37: when a page handles the randomMatched or randomWaiting event that
\* its own randomJoin caused, its `started` flag is true, so the event is
\* not discarded: a randomMatched stores the partner and, for the initiator,
\* sends the offer to that partner.
C37_OwnJoinEventHandled ==
  [][\A s \in Sockets :
       ( /\ Handling(s)
         /\ Head(toClient[s]).ev \in {"randomMatched", "randomWaiting"}
         /\ Head(toClient[s]).cause = Event("randomJoin", s) )
       => /\ client[s].started
          /\ Head(toClient[s]).ev = "randomMatched" =>
               LET partner == Head(toClient[s]).val.partnerSocketId IN
               /\ client'[s].partnerSocketId = partner
               /\ Head(toClient[s]).val.initiator =>
                    toServer'[s] = toServer[s] \o
                                     << Request("randomOffer", NULL, partner) >>]_vars

\* No event is on its way to the server or to a page.
Quiescent ==
  \A s \in Sockets : toServer[s] = <<>> /\ toClient[s] = <<>>

\* C38: in every quiescent state, a page whose partnerSocketId is set is
\* paired on the server with exactly that connection.
C38_PartnersAgreeWhenQuiescent ==
  Quiescent =>
    \A s \in Sockets :
      (client[s].build # NULL /\ client[s].partnerSocketId # NULL)
        => randomPairs[s] = client[s].partnerSocketId

====
